---- MODULE Spec2Model ----
(***************************************************************************)
(* Model of analyze.py: main() reads time series fragments (CSV documents) *)
(* into data frames, rejects the run when the column sets differ, and      *)
(* aggregates all rows into one series holding, per timestamp and column,  *)
(* the maximum observed value.  parse_args() prepares the output directory *)
(* before any fragment is read.                                            *)
(***************************************************************************)
EXTENDS Integers, Sequences, FiniteSets, TLC

\* ---- bounds of the model -------------------------------------------------
MaxFrags == 2      \* CSV paths on the command line
MaxFragRows == 2   \* rows in one CSV document
MaxRows == 3       \* rows read during one run
MaxDay == 2        \* distinct UTC instants
MaxVal == 1        \* largest counter value

\* ---- values --------------------------------------------------------------
\* pandas' "not a time" (empty time_iso8601 cell) and "not a number" (empty
\* counter cell); both lie outside the ranges of real instants and counters.
NaT == 0 - 1
NaN == 0 - 1

Columns == {"clones_total", "views_total"}
Values == 0..MaxVal
Cells == Values \cup {NaN}

\* A time_iso8601 cell as written in the document: a local time with a UTC
\* offset, an empty cell, or text that is no timestamp.
IsoTimes == {[kind |-> "iso", local |-> d, off |-> 0] : d \in 1..MaxDay}
              \cup {[kind |-> "iso", local |-> 2, off |-> 1]}
BlankTime == [kind |-> "blank", local |-> 0, off |-> 0]
BadTime == [kind |-> "bad", local |-> 0, off |-> 0]
RawTimes == IsoTimes \cup {BlankTime, BadTime}

Parseable(raw) == raw.kind # "bad"

\* pd.to_datetime(col, utc=True): the instant, normalised to UTC
to_datetime(raw) == IF raw.kind = "blank" THEN NaT ELSE raw.local - raw.off

\* ---- pure helpers --------------------------------------------------------
RECURSIVE SumLen(_)
SumLen(frags) ==
    IF frags = <<>> THEN 0 ELSE Len(Head(frags).rows) + SumLen(Tail(frags))

\* the documents pd.read_csv can be handed: a header and up to n rows
RawDocs(n) ==
    UNION {UNION {[columns : {h},
             rows : [1..k -> [time_iso8601 : RawTimes \ {BadTime}, vals : [h -> Cells]]]]
        : k \in 0..n} : h \in SUBSET Columns}

\* pd.read_csv(p, index_col=["time_iso8601"], date_parser=...)
read_csv(doc) ==
    [columns |-> doc.columns,
     rows |-> [i \in 1..Len(doc.rows) |->
                 [time |-> to_datetime(doc.rows[i].time_iso8601),
                  vals |-> doc.rows[i].vals]]]

\* the guard of the loading loop, `column_names_seen and set(df.columns) !=
\* column_names_seen`
Mismatch(seen, cols) == seen # {} /\ cols # seen

\* a row of one frame laid out over the columns of the concatenation
Reindex(row, cols) ==
    [time |-> row.time,
     vals |-> [c \in cols |-> IF c \in DOMAIN row.vals THEN row.vals[c] ELSE NaN]]

RECURSIVE ConcatRows(_, _)
ConcatRows(frags, cols) ==
    IF frags = <<>> THEN <<>>
    ELSE [i \in 1..Len(Head(frags).rows) |-> Reindex(Head(frags).rows[i], cols)]
           \o ConcatRows(Tail(frags), cols)

ConcatLastOnly(frags) ==
    LET f == frags[Len(frags)]
    IN  [columns |-> f.columns, rows |-> f.rows]

\* pd.concat(dfs): all rows in input order over the union of the columns
concat(frags) ==
    LET cols == UNION {frags[i].columns : i \in 1..Len(frags)}
    IN  [columns |-> cols, rows |-> ConcatRows(frags, cols)]

\* order of the index: ascending, NaT last
IndexLeq(a, b) == b = NaT \/ (a # NaT /\ a <= b)

\* dfa.sort_index(): the sort is not stable, any arrangement of the rows that
\* is ordered by the index may come out
sort_index(rows) ==
    LET n == Len(rows)
        perms == {p \in [1..n -> 1..n] : \A i, j \in 1..n : i # j => p[i] # p[j]}
    IN  {s \in {[i \in 1..n |-> rows[p[i]]] : p \in perms} :
            \A i \in 1..n, j \in 1..n : i < j => IndexLeq(s[i].time, s[j].time)}

RECURSIVE SortedSeq(_)
SortedSeq(S) ==
    IF S = {} THEN <<>>
    ELSE LET m == CHOOSE x \in S : \A y \in S : x <= y
         IN  <<m>> \o SortedSeq(S \ {m})

ReversedKeys(rows) ==
    LET s == SortedSeq({rows[i].time : i \in 1..Len(rows)} \ {NaT})
    IN  [i \in 1..Len(s) |-> s[Len(s) + 1 - i]]

AllButLastKey(rows) ==
    LET s == SortedSeq({rows[i].time : i \in 1..Len(rows)} \ {NaT})
    IN  IF s = <<>> THEN s ELSE SubSeq(s, 1, Len(s) - 1)

\* dfa.groupby(dfa.index): one group per distinct index value, groups in
\* ascending order of the key, rows without a key (NaT) in no group
GroupKeys(rows) == SortedSeq({rows[i].time : i \in 1..Len(rows)} \ {NaT})

RECURSIVE LastOf(_, _, _)
LastOf(rows, t, c) ==
    IF rows = <<>> THEN NaN
    ELSE LET r == rows[Len(rows)]
         IN  IF r.time = t THEN r.vals[c]
             ELSE LastOf(SubSeq(rows, 1, Len(rows) - 1), t, c)

ColumnMax(rows, t, c) ==
    LET vs == {rows[i].vals[c] : i \in 1..Len(rows)} \ {NaN}
    IN  IF vs = {} THEN NaN ELSE CHOOSE v \in vs : \A w \in vs : w <= v

RECURSIVE RunningMax(_, _, _, _)
RunningMax(rows, t, c, acc) ==
    IF rows = <<>> THEN acc
    ELSE LET r == Head(rows)
             v == r.vals[c]
             next == IF r.time # t \/ v = NaN THEN acc
                     ELSE IF acc = NaN \/ v > acc THEN v ELSE acc
         IN  RunningMax(Tail(rows), t, c, next)

\* .max() of one group and column: the largest value, cells without a value
\* skipped, NaN when no row of the group has a value
GroupMax(rows, t, c) == RunningMax(rows, t, c, NaN)

\* dfa.groupby(dfa.index).max()
groupby_max(dfa) ==
    LET keys == GroupKeys(dfa.rows)
    IN  [i \in 1..Len(keys) |->
           [time |-> keys[i],
            vals |-> [c \in dfa.columns |-> GroupMax(dfa.rows, keys[i], c)]]]

\* lines 87-106 of main(): every series the aggregation can produce
Aggregates(frags) ==
    LET dfa == concat(frags)
    IN  {groupby_max([columns |-> dfa.columns, rows |-> s]) : s \in sort_index(dfa.rows)}

\* the loading loop's guard run over a whole list of frames
RECURSIVE GuardPasses(_, _)
GuardPasses(frags, seen) ==
    IF frags = <<>> THEN TRUE
    ELSE /\ ~Mismatch(seen, Head(frags).columns)
         /\ GuardPasses(Tail(frags), seen \cup Head(frags).columns)

NargsStar(n) == n >= 0

\* add_argument("csvpath", nargs="+"): at least one path
NargsPlus(n) == n >= 1

\* ---- state ---------------------------------------------------------------
VARIABLES
    pc,                 \* position in main()
    csvpath,            \* len(args.csvpath)
    outdir,             \* what is at the output directory path
    column_names_seen,  \* main(), line 64
    df_columns,         \* set(df.columns) of the frame read last
    dfs,                \* main(), line 63
    df_agg              \* main(), line 106

vars == <<pc, csvpath, outdir, column_names_seen, df_columns, dfs, df_agg>>

Init ==
    /\ pc = "parse_args"
    /\ csvpath \in 0..MaxFrags
    /\ outdir \in {"absent", "file", "dir_old"}
    /\ column_names_seen = {}
    /\ df_columns = {}
    /\ dfs = <<>>
    /\ df_agg = <<>>

\* parser.parse_args() with nargs="+" and no path: usage error, exit
UsageError ==
    /\ pc = "parse_args"
    /\ ~NargsPlus(csvpath)
    /\ pc' = "usage_error"
    /\ UNCHANGED <<csvpath, outdir, column_names_seen, df_columns, dfs, df_agg>>

\* the output path exists and is no directory: exit
OutdirError ==
    /\ pc = "parse_args"
    /\ NargsPlus(csvpath)
    /\ outdir = "file"
    /\ pc' = "outdir_error"
    /\ UNCHANGED <<csvpath, outdir, column_names_seen, df_columns, dfs, df_agg>>

\* an existing directory is removed, then the directory is created
ParseArgs ==
    /\ pc = "parse_args"
    /\ NargsPlus(csvpath)
    /\ outdir \in {"absent", "dir_old"}
    /\ outdir' = "dir_new"
    /\ pc' = "load"
    /\ UNCHANGED <<csvpath, column_names_seen, df_columns, dfs, df_agg>>

\* pd.read_csv raises on a time_iso8601 cell that is no timestamp
ParseError ==
    /\ pc = "load"
    /\ Len(dfs) < csvpath
    /\ \E raw \in RawTimes : ~Parseable(raw)
    /\ pc' = "parse_error"
    /\ UNCHANGED <<csvpath, outdir, column_names_seen, df_columns, dfs, df_agg>>

\* one iteration of the loop that ends in sys.exit(1)
SchemaError ==
    /\ pc = "load"
    /\ Len(dfs) < csvpath
    /\ \E h \in SUBSET Columns :
         /\ Mismatch(column_names_seen, h)
         /\ df_columns' = h
    /\ pc' = "schema_error"
    /\ UNCHANGED <<csvpath, outdir, column_names_seen, dfs, df_agg>>

\* one iteration of the loop that appends the frame
LoadFragment ==
    /\ pc = "load"
    /\ Len(dfs) < csvpath
    /\ \E n \in 0..MaxFragRows :
         /\ n <= MaxRows - SumLen(dfs)
         /\ \E doc \in RawDocs(n) :
              LET df == read_csv(doc)
              IN  /\ ~Mismatch(column_names_seen, df.columns)
                  /\ df_columns' = df.columns
                  /\ column_names_seen' = column_names_seen \cup df.columns
                  /\ dfs' = Append(dfs, df)
    /\ UNCHANGED <<pc, csvpath, outdir, df_agg>>

\* lines 87-106; pd.concat raises on an empty list, which nargs="+" rules out
Aggregate ==
    /\ pc = "load"
    /\ Len(dfs) = csvpath
    /\ dfs # <<>>
    /\ df_agg' \in Aggregates(dfs)
    /\ pc' = "done"
    /\ UNCHANGED <<csvpath, outdir, column_names_seen, df_columns, dfs>>

Next ==
    \/ UsageError
    \/ OutdirError
    \/ ParseArgs
    \/ ParseError
    \/ SchemaError
    \/ LoadFragment
    \/ Aggregate

Spec == Init /\ [][Next]_vars

\* ---- vocabulary of the properties ----------------------------------------
\* positions <<i, j>> of the rows read: row j of frame i
Positions == {p \in (1..Len(dfs)) \X (1..MaxRows) : p[2] <= Len(dfs[p[1]].rows)}
TimeAt(p) == dfs[p[1]].rows[p[2]].time
HasValue(p, c) == c \in dfs[p[1]].columns /\ dfs[p[1]].rows[p[2]].vals[c] # NaN
ValueAt(p, c) == dfs[p[1]].rows[p[2]].vals[c]
FragmentTimes(i) == {dfs[i].rows[j].time : j \in 1..Len(dfs[i].rows)} \ {NaT}
Timestamps == UNION {FragmentTimes(i) : i \in 1..Len(dfs)}
SeriesTimes == {df_agg[k].time : k \in 1..Len(df_agg)}

PermSeqs(seq) ==
    LET n == Len(seq)
    IN  {[i \in 1..n |-> seq[p[i]]] :
           p \in {q \in [1..n -> 1..n] : \A i, j \in 1..n : i # j => q[i] # q[j]}}

RECURSIVE RowRearrangements(_)
RowRearrangements(frags) ==
    IF frags = <<>> THEN {<<>>}
    ELSE {<<[columns |-> Head(frags).columns, rows |-> r]>> \o rest :
            r \in PermSeqs(Head(frags).rows), rest \in RowRearrangements(Tail(frags))}

\* every reordering of the frames and of the rows inside each frame
Rearrangements(frags) == UNION {PermSeqs(f) : f \in RowRearrangements(frags)}

\* the series read back as the only fragment of a run
AsFragment(series) == [columns |-> column_names_seen, rows |-> series]

\* ---- C1 ------------------------------------------------------------------
\* C1: for every timestamp T and column C, when every row read for T carries
\* a value for C, the series' value at (T, C) is one of those values and no
\* row's value exceeds it: the maximum, whatever the order of the fragments.
PointwiseMaximum ==
    pc = "done" =>
      \A t \in Timestamps, c \in column_names_seen :
        LET P == {p \in Positions : TimeAt(p) = t}
        IN  (\A p \in P : HasValue(p, c)) =>
              \E k \in 1..Len(df_agg) :
                /\ df_agg[k].time = t
                /\ \E p \in P : ValueAt(p, c) = df_agg[k].vals[c]
                /\ \A p \in P : ValueAt(p, c) <= df_agg[k].vals[c]

\* two fragments disagree on a day, the first one holds the larger value and
\* the series keeps it; the series has another day besides
PointwiseMaximumWitness ==
    /\ pc = "done"
    /\ Len(dfs) = 2
    /\ Len(df_agg) >= 2
    /\ \E c \in column_names_seen, p, q \in Positions, k \in 1..Len(df_agg) :
         /\ p[1] = 1 /\ q[1] = 2
         /\ TimeAt(p) = TimeAt(q) /\ TimeAt(p) = df_agg[k].time
         /\ HasValue(p, c) /\ HasValue(q, c)
         /\ ValueAt(p, c) > ValueAt(q, c)
         /\ df_agg[k].vals[c] = ValueAt(p, c)

\* ---- C2 ------------------------------------------------------------------
\* C2: the timestamps of the series are exactly the timestamps of all the
\* fragments read, and no two rows of the series share a timestamp.
UnionOfTimestamps ==
    pc = "done" =>
      /\ SeriesTimes = Timestamps
      /\ \A k, l \in 1..Len(df_agg) : k # l => df_agg[k].time # df_agg[l].time

\* two fragments, each with a day the other lacks, and a day read twice
UnionOfTimestampsWitness ==
    /\ pc = "done"
    /\ Len(dfs) = 2
    /\ ~(FragmentTimes(1) \subseteq FragmentTimes(2))
    /\ ~(FragmentTimes(2) \subseteq FragmentTimes(1))
    /\ \E p, q \in Positions : p # q /\ TimeAt(p) = TimeAt(q) /\ TimeAt(p) # NaT

\* ---- C3 ------------------------------------------------------------------
\* C3: a run that produced a series produces the same series, and passes the
\* column check, for every reordering of its fragments and of their rows.
OrderIndependence ==
    pc = "done" =>
      \A f \in Rearrangements(dfs) :
        /\ GuardPasses(f, {})
        /\ Aggregates(f) = {df_agg}

\* ---- C4 ------------------------------------------------------------------
\* C4: every frame the loop accepted has the column set of the first frame,
\* and a frame the loop rejected has a column set other than the first's.
SchemaGate ==
    /\ \A i \in 1..Len(dfs) : dfs[i].columns = dfs[1].columns
    /\ pc = "schema_error" => dfs # <<>> /\ df_columns # dfs[1].columns

\* ---- C5 ------------------------------------------------------------------
\* C5: with no fragment path the run can only stop with the usage error: no
\* frame is read, no series is built, the output directory is not created.
EmptyInput ==
    csvpath = 0 =>
      /\ pc \in {"parse_args", "usage_error"}
      /\ outdir # "dir_new"
      /\ dfs = <<>>
      /\ df_agg = <<>>

\* the run without paths has stopped and an earlier report is still in place
EmptyInputWitness ==
    csvpath = 0 /\ pc = "usage_error" /\ outdir = "dir_old"

\* ---- C6 ------------------------------------------------------------------
\* C6: aggregating the series again, as the only fragment, gives the series.
Idempotence ==
    pc = "done" => Aggregates(<<AsFragment(df_agg)>>) = {df_agg}

\* a series of two days that came out of merging rows
IdempotenceWitness ==
    /\ pc = "done"
    /\ Len(df_agg) >= 2
    /\ Cardinality({p \in Positions : TimeAt(p) # NaT}) > Len(df_agg)

\* ---- C7 ------------------------------------------------------------------
\* C7 as stated: a single fragment of N rows gives a series of N rows that
\* holds every row of the fragment.
SingleFragmentIdentity ==
    (pc = "done" /\ csvpath = 1) =>
      /\ Len(df_agg) = Len(dfs[1].rows)
      /\ \A j \in 1..Len(dfs[1].rows) :
           \E k \in 1..Len(df_agg) :
             /\ df_agg[k].time = dfs[1].rows[j].time
             /\ df_agg[k].vals = dfs[1].rows[j].vals

DistinctTimestamps(frame) ==
    /\ \A j \in 1..Len(frame.rows) : frame.rows[j].time # NaT
    /\ \A j, l \in 1..Len(frame.rows) : j # l => frame.rows[j].time # frame.rows[l].time

\* C7 amended: a single fragment of N rows whose rows all have a timestamp,
\* pairwise distinct once normalised to UTC, gives a series of N rows that
\* holds every row of the fragment.
SingleFragmentIdentityDistinct ==
    (pc = "done" /\ csvpath = 1 /\ DistinctTimestamps(dfs[1])) =>
      /\ Len(df_agg) = Len(dfs[1].rows)
      /\ \A j \in 1..Len(dfs[1].rows) :
           \E k \in 1..Len(df_agg) :
             /\ df_agg[k].time = dfs[1].rows[j].time
             /\ df_agg[k].vals = dfs[1].rows[j].vals

\* one fragment, two days given later day first, with different values
SingleFragmentIdentityWitness ==
    /\ pc = "done"
    /\ csvpath = 1
    /\ DistinctTimestamps(dfs[1])
    /\ Len(dfs[1].rows) = 2
    /\ dfs[1].rows[1].time > dfs[1].rows[2].time
    /\ dfs[1].rows[1].vals # dfs[1].rows[2].vals
    /\ Len(df_agg) = 2

\* ---- C8 ------------------------------------------------------------------
\* C8: when reading a fragment or the column check stops the run, no series
\* exists and the output directory is neither created nor replaced.
FailFastWithoutArtifacts ==
    pc \in {"parse_error", "schema_error"} =>
      /\ outdir # "dir_new"
      /\ df_agg = <<>>

\* ---- C9 ------------------------------------------------------------------
\* C9: the rows of the series are in strictly ascending order of timestamp.
OutputOrdering ==
    pc = "done" =>
      \A k, l \in 1..Len(df_agg) : k < l => df_agg[k].time < df_agg[l].time

\* a series of two days whose rows were read later day first
OutputOrderingWitness ==
    /\ pc = "done"
    /\ Len(df_agg) >= 2
    /\ \E p, q \in Positions :
         /\ p[1] < q[1] \/ (p[1] = q[1] /\ p[2] < q[2])
         /\ TimeAt(q) # NaT
         /\ TimeAt(p) > TimeAt(q)

\* ---- C10 -----------------------------------------------------------------
\* C10: a run that produced a series read no row that has a timestamp and
\* lacks a value for one of the columns.
MissingValueIsError ==
    pc = "done" =>
      \A p \in Positions, c \in column_names_seen :
        TimeAt(p) # NaT => HasValue(p, c)
====
